---- MODULE Spec2Model ----
(***************************************************************************)
(* ContextCloud Agents: the FastAPI backend (backend/main.py), the agent   *)
(* orchestrator (backend/agents/orchestrator.py) and the pure helpers of   *)
(* the agents and of the Weaviate client.                                  *)
(*                                                                         *)
(* A coroutine is modelled by its position (pc): one action runs the code  *)
(* from one await to the next, so two requests interleave exactly at the   *)
(* awaits of the source.  The outcome of an external service call (object  *)
(* store, OCR, entity extractor, vector store, language models) is chosen  *)
(* by the environment when the call returns.                               *)
(***************************************************************************)
EXTENDS Integers, Sequences, FiniteSets, TLC

\* ------------------------------------------------------------------ bounds
\* total number of requests / direct calls started in one behaviour
MaxRequests == 2

\* longest document list handed to the agents' helpers
MaxDocs == 3

\* ------------------------------------------------------------ request slots
\* two coroutines in flight are enough for every pairwise interleaving
Reqs == {1, 2}

\* --------------------------------------------------------------- the agents
\* orchestrator.py:32-37, and the order of the steps of process_query
AgentOrder == <<"PlannerAgent", "RetrieverAgent", "AnalyzerAgent", "ReporterAgent">>

AgentNames == {AgentOrder[i] : i \in 1..Len(AgentOrder)}

AgentStatus == {"not_initialized", "ready", "completed", "failed"}

AgentIndex(a) == CHOOSE i \in 1..Len(AgentOrder) : AgentOrder[i] = a

\* the planner's intent analysis (planner.py:109-116): the three needs_* flags
IntentAnalyses ==
  { [needs_retrieval |-> TRUE,  needs_analysis |-> TRUE,  needs_summarization |-> TRUE],
    [needs_retrieval |-> TRUE,  needs_analysis |-> FALSE, needs_summarization |-> FALSE],
    [needs_retrieval |-> FALSE, needs_analysis |-> FALSE, needs_summarization |-> FALSE] }

\* planner.py:188-205
DetermineNextAgents(intent) ==
  LET a1 == IF intent.needs_retrieval THEN <<"RetrieverAgent">> ELSE <<>>
      a2 == IF intent.needs_analysis THEN a1 \o <<"AnalyzerAgent">> ELSE a1
      a3 == IF intent.needs_summarization THEN a2 \o <<"ReporterAgent">> ELSE a2
  IN  IF \E i \in 1..Len(a3) : a3[i] = "ReporterAgent" THEN a3 ELSE a3 \o <<"ReporterAgent">>

VARIABLES
  wired,               \* TRUE: the app is started by lifespan; FALSE: handles injected by the embedder
  started,             \* lifespan has run (or the handles were injected)
  weaviate_client,     \* main.py:31   "None" | "mock" (client is None) | "connected"
  friendli_client,     \* main.py:32   "None" | "unconnected" (client is None) | "connected"
  gemini_client,       \* main.py:33   "None" | "ready"
  aws_tools,           \* main.py:34   "None" | "obj"
  agent_orchestrator,  \* main.py:35   "None" | "obj"
  agent_obj,           \* orchestrator.py:26-29: is self.<x>_agent an object (TRUE) or None
  agent_status,        \* orchestrator.py:32-37
  init_pc,             \* position of AgentOrchestrator.initialize
  req,                 \* the coroutine in flight in each slot
  done,                \* the coroutine that finished last, with its outcome
  ncalls,              \* number of requests started
  s3_objects,          \* number of objects in the object store
  vector_docs,         \* number of documents in the vector store
  hash_order,          \* iteration order of a Python set of strings in this process
  documents,           \* the document list handed to the agents' helpers
  ranked,              \* the last result of RetrieverAgent._rank_documents
  patterns,            \* the last result of AnalyzerAgent._detect_patterns
  call                 \* the last call of a function outside the request handlers: its arguments and result

vars == <<wired, started, weaviate_client, friendli_client, gemini_client, aws_tools,
          agent_orchestrator, agent_obj, agent_status, init_pc, req, done, ncalls,
          s3_objects, vector_docs, hash_order, documents, ranked, patterns, call>>

others == <<hash_order, documents, ranked, patterns, call>>

handles == <<weaviate_client, friendli_client, gemini_client, aws_tools, agent_orchestrator>>

NoSnap == [a \in AgentNames |-> "-"]

NoGraph == [case |-> "none", data |-> [nodes |-> <<>>, edges |-> <<>>]]

NoCall == [fn |-> "none"]

NoPatterns ==
  [document_type_distribution |-> <<>>, entity_patterns |-> <<>>,
   pattern_analysis_method |-> "", total_patterns_identified |-> 0]

NoBody == [message |-> "", graph |-> [nodes |-> <<>>, links |-> <<>>],
           node_count |-> 0, edge_count |-> 0]

IdleReq ==
  [h |-> "idle", pc |-> "idle", query |-> "", log |-> <<>>, plan |-> <<>>,
   raised |-> 0, extfail |-> FALSE, absorbed |-> FALSE, status |-> 0,
   snap |-> NoSnap, before |-> NoSnap, outcome |-> "-",
   graph |-> NoGraph, body |-> NoBody]

Free(r) == req[r].pc = "idle"

\* the coroutine of slot r moves on to rq; a finished one leaves the slot
Put(r, rq) ==
  IF rq.pc = "done"
    THEN /\ req' = [req EXCEPT ![r] = IdleReq]
         /\ done' = rq
    ELSE /\ req' = [req EXCEPT ![r] = rq]
         /\ done' = done

\* the slot r starts a new coroutine of handler h with query q
NewReq(h, q) == [IdleReq EXCEPT !.h = h, !.query = q]

CanStart(r) == started /\ Free(r) /\ ncalls < MaxRequests

\* ------------------------------------------------------------ start-up

\* orchestrator.py:20-39
Constructed == [a \in AgentNames |-> "not_initialized"]

\* orchestrator.py:41-86, after initialize returned
Initialized == [a \in AgentNames |-> "ready"]

\* main.py:37-71: the handles are assigned; the orchestrator is constructed,
\* its initialize is not called; aws_tools stays None (main.py:56); the
\* Weaviate wrapper is in mock mode (weaviate_client.py:31); the Friendli
\* wrapper is constructed without a client (friendli_client.py:19)
LifespanEnabled == wired /\ ~started

\* a start-up that also awaits the orchestrator's initialize, all agents
\* becoming ready
LifespanInitializing ==
  /\ LifespanEnabled
  /\ weaviate_client' = "mock"
  /\ friendli_client' = "unconnected"
  /\ gemini_client' = "ready"
  /\ aws_tools' = "None"
  /\ agent_orchestrator' = "obj"
  /\ agent_obj' = [a \in AgentNames |-> TRUE]
  /\ agent_status' = Initialized
  /\ started' = TRUE
  /\ UNCHANGED <<wired, init_pc, req, done, ncalls, s3_objects, vector_docs, others>>

Lifespan ==
  /\ LifespanEnabled
  /\ weaviate_client' = "mock"
  /\ friendli_client' = "unconnected"
  /\ gemini_client' = "ready"
  /\ aws_tools' = "None"
  /\ agent_orchestrator' = "obj"
  /\ agent_obj' = [a \in AgentNames |-> FALSE]
  /\ agent_status' = Constructed
  /\ started' = TRUE
  /\ UNCHANGED <<wired, init_pc, req, done, ncalls, s3_objects, vector_docs, others>>

\* orchestrator.py:41-90, one agent per step: the agent object is assigned,
\* its initialize is awaited, then its status becomes "ready"; a failure is
\* re-raised and leaves the later agents unassigned
OrchInitializeStep(ok) ==
  /\ ~wired /\ agent_orchestrator = "obj"
  /\ init_pc \in 1..Len(AgentOrder)
  /\ LET a == AgentOrder[init_pc] IN
       /\ agent_obj' = [agent_obj EXCEPT ![a] = TRUE]
       /\ IF ok
            THEN /\ agent_status' = [agent_status EXCEPT ![a] = "ready"]
                 /\ init_pc' = init_pc + 1
            ELSE /\ agent_status' = agent_status
                 /\ init_pc' = 0
  /\ UNCHANGED <<wired, started, handles, req, done, ncalls, s3_objects, vector_docs, others>>

OrchInitialize == \E ok \in BOOLEAN : OrchInitializeStep(ok)

\* ------------------------------------------- AgentOrchestrator.process_query

\* orchestrator.py:150-157: the except block of process_query
MarkFailed(st) == [a \in AgentNames |-> IF st[a] = "ready" THEN "failed" ELSE st[a]]

\* how a coroutine that ran process_query ends: the HTTP handler turns the
\* exception into a 500 response (main.py:198-200), a direct caller sees it
EndRaised(rq, lg, st) ==
  [rq EXCEPT !.pc = "done", !.log = lg, !.snap = st,
             !.outcome = "raised",
             !.status = IF rq.h = "/agents/run" THEN 500 ELSE 0]

EndReturned(rq, lg, st) ==
  [rq EXCEPT !.pc = "done", !.log = lg, !.snap = st, !.outcome = "returned",
             !.status = IF rq.h = "/agents/run" THEN 200 ELSE 0]

AwaitPc(a) ==
  CASE a = "PlannerAgent"   -> "await_planner"
    [] a = "RetrieverAgent" -> "await_retriever"
    [] a = "AnalyzerAgent"  -> "await_analyzer"
    [] a = "ReporterAgent"  -> "await_reporter"

\* the call of agent a at orchestrator.py:99 / 104 / 112 / 120: when the
\* attribute is None the call raises AttributeError before any agent runs
CallAgent(r, rq, lg, st, a) ==
  IF agent_obj[a]
    THEN /\ Put(r, [rq EXCEPT !.pc = AwaitPc(a), !.log = Append(lg, <<"call", a>>)])
         /\ agent_status' = st
    ELSE /\ Put(r, EndRaised(rq, lg, MarkFailed(st)))
         /\ agent_status' = MarkFailed(st)

\* a dispatcher that follows the plan: the next agent of the sequence that
\* the planner listed in next_agents, the reporter when there is none
NextAgentByPlan(a, plan) ==
  LET later == {i \in AgentIndex(a) + 1 .. Len(AgentOrder) :
                  \E j \in 1..Len(plan) : plan[j] = AgentOrder[i]}
  IN IF later = {} THEN "ReporterAgent"
     ELSE AgentOrder[CHOOSE i \in later : \A j \in later : i <= j]

\* the agent after a in the fixed sequence of process_query
NextAgent(a, plan) == AgentOrder[AgentIndex(a) + 1]

\* agent a returned (ok) or raised (~ok) to process_query; plan is the
\* next_agents list of the planning results the coroutine holds from then on
AgentReturn(r, a, ok, plan) ==
  /\ req[r].pc = AwaitPc(a)
  /\ LET rq == [req[r] EXCEPT !.plan = plan]
     IN IF ok
          THEN LET lg == Append(rq.log, <<"ret", a>>)
                   st == [agent_status EXCEPT ![a] = "completed"]
               IN IF a = "ReporterAgent"
                    THEN /\ Put(r, EndReturned(rq, lg, st))
                         /\ agent_status' = st
                    ELSE CallAgent(r, rq, lg, st, NextAgent(a, rq.plan))
          ELSE LET lg == Append(req[r].log, <<"raise", a>>)
                   st == MarkFailed(agent_status)
               IN /\ Put(r, EndRaised([req[r] EXCEPT !.extfail = TRUE], lg, st))
                  /\ agent_status' = st
  /\ UNCHANGED <<wired, started, handles, agent_obj, init_pc, ncalls, s3_objects, vector_docs, others>>

\* orchestrator.py:97-100
Step1Planning(r) ==
  \E ok \in BOOLEAN, intent \in IntentAnalyses :
     AgentReturn(r, "PlannerAgent", ok, DetermineNextAgents(intent))

\* orchestrator.py:102-108
Step2Retrieval(r) ==
  \E ok \in BOOLEAN : AgentReturn(r, "RetrieverAgent", ok, req[r].plan)

\* orchestrator.py:110-116
Step3Analysis(r) ==
  \E ok \in BOOLEAN : AgentReturn(r, "AnalyzerAgent", ok, req[r].plan)

\* orchestrator.py:118-148
Step4Report(r) ==
  \E ok \in BOOLEAN : AgentReturn(r, "ReporterAgent", ok, req[r].plan)

\* orchestrator.py:130-145: the result of a run that returns; st is
\* self.agent_status at that moment, the other values are literals
WorkflowResult(st) ==
  [workflow_status |-> "completed",
   agent_status |-> st,
   workflow_metadata |-> [total_agents |-> 4, agents_completed |-> 4]]

\* a direct call of AgentOrchestrator.process_query (orchestrator.py:92-99)
ProcessQuery(r) ==
  /\ CanStart(r) /\ agent_orchestrator = "obj"
  /\ ncalls' = ncalls + 1
  /\ CallAgent(r, NewReq("process_query", "q"), <<>>,
               agent_status, "PlannerAgent")
  /\ UNCHANGED <<wired, started, handles, agent_obj, init_pc, s3_objects, vector_docs, others>>

\* orchestrator.py:181-194: no await inside, the call runs in one piece
ResetStatus(st) ==
  [a \in AgentNames |-> IF st[a] \in {"completed", "failed"} THEN "ready" ELSE st[a]]

ResetAgents(r) ==
  /\ CanStart(r) /\ agent_orchestrator = "obj"
  /\ ncalls' = ncalls + 1
  /\ agent_status' = ResetStatus(agent_status)
  /\ Put(r, [NewReq("reset_agents", "") EXCEPT
                !.pc = "done", !.before = agent_status,
                !.snap = ResetStatus(agent_status), !.outcome = "returned"])
  /\ UNCHANGED <<wired, started, handles, agent_obj, init_pc, s3_objects, vector_docs, others>>

\* orchestrator.py:162-171: what get_status computes from the status map
StatusReport(st) ==
  [agents |-> st,
   orchestrator_status |-> IF \A a \in AgentNames : st[a] = "ready"
                             THEN "ready" ELSE "initializing",
   total_agents |-> Cardinality(DOMAIN st),
   ready_agents |-> Cardinality({a \in DOMAIN st : st[a] = "ready"}),
   completed_agents |-> Cardinality({a \in DOMAIN st : st[a] = "completed"}),
   failed_agents |-> Cardinality({a \in DOMAIN st : st[a] = "failed"})]

\* orchestrator.py:159-171
GetStatus(r) ==
  /\ CanStart(r) /\ agent_orchestrator = "obj"
  /\ ncalls' = ncalls + 1
  /\ Put(r, [NewReq("get_status", "") EXCEPT
                !.pc = "done", !.snap = agent_status, !.outcome = "returned"])
  /\ UNCHANGED <<wired, started, handles, agent_obj, agent_status, init_pc,
                 s3_objects, vector_docs, others>>

\* ------------------------------------------------ the HTTP handlers (main.py)

\* a handler finishes with an HTTP response
Respond(rq, code) == [rq EXCEPT !.pc = "done", !.status = code, !.outcome = "response"]

\* `raise HTTPException(status_code=code)` inside the handler's try block:
\* HTTPException is an Exception, so the handler's own `except Exception`
\* catches it and raises HTTPException(500) in its place
RaiseInTry(rq, code) == Respond([rq EXCEPT !.raised = code], 500)

\* an external call raised and the handler's except block turns it into a 500
ExternalFailure(rq) == Respond([rq EXCEPT !.extfail = TRUE], 500)

\* an external call raised and the callee replaced it by a default value
Absorb(rq) == [rq EXCEPT !.extfail = TRUE, !.absorbed = TRUE]

\* the "query" of the request body: absent or empty (both read as ""), or a text
Queries == {"", "q"}

\* the same with a query of blanks only, which only /search/gemini strips
QueriesWithBlank == {"", " ", "q"}

\* str.strip() on the model's queries
Strip(q) == IF q = " " THEN "" ELSE q

OrchUnchanged == UNCHANGED <<agent_obj, agent_status, init_pc>>

StoreUnchanged == UNCHANGED <<s3_objects, vector_docs>>

Begin(r, rq) ==
  /\ CanStart(r)
  /\ ncalls' = ncalls + 1
  /\ Put(r, rq)
  /\ UNCHANGED <<wired, started, handles, hash_order, documents, ranked, patterns, call>>

Continue(r, rq) ==
  /\ Put(r, rq)
  /\ UNCHANGED <<wired, started, handles, ncalls, hash_order, documents, ranked, patterns, call>>

\* main.py:93-101
Root(r) ==
  /\ Begin(r, Respond(NewReq("/", ""), 200))
  /\ OrchUnchanged /\ StoreUnchanged

\* main.py:178-200 up to the first await of process_query
RunAgents(r) ==
  \E q \in Queries :
    /\ CanStart(r)
    /\ ncalls' = ncalls + 1
    /\ LET rq == NewReq("/agents/run", q) IN
         IF q = ""
           THEN /\ Put(r, RaiseInTry(rq, 400))
                /\ agent_status' = agent_status
           ELSE IF agent_orchestrator = "None"
             THEN /\ Put(r, Respond(rq, 500))
                  /\ agent_status' = agent_status
             ELSE CallAgent(r, rq, <<>>, agent_status, "PlannerAgent")
    /\ UNCHANGED <<wired, started, handles, agent_obj, init_pc, s3_objects, vector_docs, others>>

\* friendli_client.py:41-76: with no client the wrapper calls its initialize,
\* which raises (no API key, or the module-level alias FriendliClient =
\* FriendliClientWrapper makes the constructor call at line 31 a TypeError)
FriendliCanQuery == friendli_client = "connected"

\* main.py:202-223
AskFriendli(r) ==
  \E q \in Queries :
    /\ Begin(r, LET rq == NewReq("/ask", q) IN
                  IF q = "" THEN RaiseInTry(rq, 400)
                  ELSE IF ~FriendliCanQuery THEN Respond(rq, 500)
                  ELSE [rq EXCEPT !.pc = "await_friendli"])
    /\ OrchUnchanged /\ StoreUnchanged

AskFriendliReturn(r) ==
  \E ok \in BOOLEAN :
    /\ req[r].pc = "await_friendli"
    /\ Continue(r, IF ok THEN Respond(req[r], 200) ELSE ExternalFailure(req[r]))
    /\ OrchUnchanged /\ StoreUnchanged

\* a status endpoint that reports the statuses as they were after start-up
GetAgentStatusAtStartup(r) ==
  /\ Begin(r, LET rq == NewReq("/agents/status", "") IN
                IF agent_orchestrator = "None" THEN RaiseInTry(rq, 503)
                ELSE Respond([rq EXCEPT !.snap = IF \A a \in AgentNames : agent_obj[a]
                                                  THEN Initialized ELSE Constructed], 200))
  /\ OrchUnchanged /\ StoreUnchanged

\* main.py:356-372
GetAgentStatus(r) ==
  /\ Begin(r, LET rq == NewReq("/agents/status", "") IN
                IF agent_orchestrator = "None" THEN RaiseInTry(rq, 503)
                ELSE Respond([rq EXCEPT !.snap = agent_status], 200))
  /\ OrchUnchanged /\ StoreUnchanged

\* demo_main.py:90-233
DemoRunAgents(r) ==
  \E q \in Queries :
    /\ Begin(r, LET rq == NewReq("demo:/agents/run", q) IN
                  IF q = "" THEN RaiseInTry(rq, 400)
                  ELSE [rq EXCEPT !.pc = "await_sleep"])
    /\ OrchUnchanged /\ StoreUnchanged

DemoRunAgentsReturn(r) ==
  /\ req[r].pc = "await_sleep"
  /\ Continue(r, Respond([req[r] EXCEPT !.log = <<"simulated">>], 200))
  /\ OrchUnchanged /\ StoreUnchanged

\* ---------------------------------------------- sequence helpers (Python lists)

Min(a, b) == IF a < b THEN a ELSE b

RECURSIVE Flatten(_)
Flatten(ss) == IF ss = <<>> THEN <<>> ELSE Head(ss) \o Flatten(Tail(ss))

Map(F(_), s) == [i \in 1..Len(s) |-> F(s[i])]

Range(s) == {s[i] : i \in 1..Len(s)}

Take(s, n) == SubSeq(s, 1, Min(n, Len(s)))

Reverse(s) == [i \in 1..Len(s) |-> s[Len(s) + 1 - i]]

\* dict.get(key, default)
Get(d, k, default) == IF k \in DOMAIN d THEN d[k] ELSE default

\* --------------------------------- WeaviateClient._generate_comprehensive_sample_graph

\* weaviate_client.py:247-352, an excerpt of the literal table: two departments
SampleDepartments ==
  << [name |-> "Human Resources", color |-> "#FF6B6B", documents |->
       << [name |-> "Employee Handbook 2024", type |-> "policy",
           summary |-> "Comprehensive guide covering employee policies",
           key_terms |-> <<"employee", "benefits", "policy", "conduct">>],
          [name |-> "Training & Development Program", type |-> "program",
           summary |-> "Comprehensive learning and development initiatives",
           key_terms |-> <<"training", "development">>] >>],
     [name |-> "Finance", color |-> "#45B7D1", documents |->
       << [name |-> "Financial Controls Framework", type |-> "framework",
           summary |-> "Internal controls and financial oversight mechanisms",
           key_terms |-> <<"controls", "financial">>] >>] >>

\* weaviate_client.py:418-439, the connections between the departments kept
CrossConnections ==
  << <<"dept_human_resources", "dept_finance", "collaborates">>,
     <<"dept_finance", "dept_human_resources", "oversees">> >>

\* weaviate_client.py:449-494, an excerpt
SystemsAndProcesses ==
  << [id |-> "system_hrms", label |-> "HRMS", type |-> "system",
      summary |-> "Human Resource Management System",
      key_terms |-> <<"hrms", "human resources", "employee">>,
      connects_to |-> <<"dept_human_resources", "dept_finance">>],
     [id |-> "compliance_sox", label |-> "SOX Compliance", type |-> "compliance",
      summary |-> "Sarbanes-Oxley compliance framework",
      key_terms |-> <<"sox", "financial", "controls">>,
      connects_to |-> <<"dept_finance">>] >>

\* weaviate_client.py:529-552, an excerpt
SystemConnections == << <<"compliance_sox", "system_hrms", "governs">> >>

\* weaviate_client.py:562-578, an excerpt: the second pair names an entity
\* that no key term produces
EntityRelationships ==
  << <<"entity_employee", "entity_training", "requires">>,
     <<"entity_financial", "entity_reporting", "documented_in">> >>

\* name.lower().replace(' ', '_').replace('&', 'and') on the names of the table
Slug(name) ==
  CASE name = "Human Resources" -> "human_resources"
    [] name = "Finance" -> "finance"
    [] name = "Employee Handbook 2024" -> "employee_handbook_2024"
    [] name = "Training & Development Program" -> "training_and_development_program"
    [] name = "Financial Controls Framework" -> "financial_controls_framework"
    [] name = "human resources" -> "human_resources"
    [] OTHER -> name

\* str.lower() on the department names
Lower(name) ==
  CASE name = "Human Resources" -> "human resources"
    [] name = "Finance" -> "finance"
    [] OTHER -> name

\* str.title() on the key terms of the table
Title(term) ==
  CASE term = "employee" -> "Employee"
    [] term = "benefits" -> "Benefits"
    [] term = "policy" -> "Policy"
    [] term = "conduct" -> "Conduct"
    [] term = "training" -> "Training"
    [] term = "development" -> "Development"
    [] term = "controls" -> "Controls"
    [] term = "financial" -> "Financial"
    [] term = "human resources" -> "Human Resources"
    [] term = "finance" -> "Finance"
    [] term = "department" -> "Department"
    [] term = "enterprise" -> "Enterprise"
    [] term = "operations" -> "Operations"
    [] OTHER -> term

\* weaviate_client.py:356-365
DeptNode(d) ==
  [id |-> "dept_" \o Slug(d.name), label |-> d.name, type |-> "department",
   color |-> d.color,
   summary |-> "Enterprise department responsible for " \o Lower(d.name),
   key_terms |-> <<Lower(d.name), "department", "enterprise", "operations">>,
   content_preview |-> d.name \o " department managing organizational functions..."]

\* weaviate_client.py:369-377
DocNode(d, doc) ==
  [id |-> "doc_" \o Slug(d.name) \o "_" \o Slug(doc.name), label |-> doc.name,
   type |-> doc.type, summary |-> doc.summary, key_terms |-> doc.key_terms,
   content_preview |-> doc.summary \o "...", entities |-> Take(doc.key_terms, 3)]

\* weaviate_client.py:355-385: the nodes and edges of one department
DeptNodes(d) ==
  <<DeptNode(d)>> \o [i \in 1..Len(d.documents) |-> DocNode(d, d.documents[i])]

DeptEdges(d) ==
  [i \in 1..Len(d.documents) |->
     [source |-> DeptNode(d).id, target |-> DocNode(d, d.documents[i]).id, label |-> "manages"]]

\* weaviate_client.py:395-402
EntityId(term) == "entity_" \o Slug(term)

EntityNode(term) ==
  [id |-> EntityId(term), label |-> Title(term), type |-> "entity",
   summary |-> "Key concept or term related to enterprise operations: " \o term,
   key_terms |-> <<term, "concept", "enterprise">>,
   content_preview |-> "Entity representing " \o term]

\* weaviate_client.py:406-415 and 517-526: one edge per key term of a node of
\* one of the given types whose entity node exists
TermEdges(nodes, types, label) ==
  LET ids == {nodes[i].id : i \in 1..Len(nodes)}
      OfNode(n) ==
        IF n.type \in types
          THEN LET kt == Get(n, "key_terms", <<>>)
                   hit == SelectSeq(kt, LAMBDA t : EntityId(t) \in ids)
               IN [i \in 1..Len(hit) |-> [source |-> n.id, target |-> EntityId(hit[i]), label |-> label]]
          ELSE <<>>
  IN Flatten([i \in 1..Len(nodes) |-> OfNode(nodes[i])])

DocumentTypes ==
  {"policy", "procedure", "technical", "strategy", "framework", "program",
   "manual", "guidelines", "analysis"}

SystemTypes ==
  {"system", "platform", "infrastructure", "process", "framework", "compliance",
   "governance", "metrics", "analytics", "integration", "innovation", "research"}

TripleEdges(ts) == [i \in 1..Len(ts) |-> [source |-> ts[i][1], target |-> ts[i][2], label |-> ts[i][3]]]

\* weaviate_client.py:497-514
SystemNode(item) ==
  [id |-> item.id, label |-> item.label, type |-> item.type, summary |-> item.summary,
   key_terms |-> item.key_terms, content_preview |-> item.summary \o "..."]

SystemEdges(item) ==
  [i \in 1..Len(item.connects_to) |->
     [source |-> item.id, target |-> item.connects_to[i],
      label |-> IF item.type \in {"system", "platform", "infrastructure"}
                  THEN "supports" ELSE "implements"]]

\* weaviate_client.py:241-591; order is the iteration order of the Python
\* set all_entities (line 394), which the hash seed of the process decides
GenerateSampleGraph(order) ==
  LET nodes1 == Flatten([i \in 1..Len(SampleDepartments) |-> DeptNodes(SampleDepartments[i])])
      edges1 == Flatten([i \in 1..Len(SampleDepartments) |-> DeptEdges(SampleDepartments[i])])
      all_entities == UNION {Range(Get(nodes1[i], "key_terms", <<>>)) : i \in 1..Len(nodes1)}
      iter   == SelectSeq(order, LAMBDA t : t \in all_entities)
      nodes2 == nodes1 \o [i \in 1..Len(iter) |-> EntityNode(iter[i])]
      edges2 == edges1 \o TermEdges(nodes2, DocumentTypes, "contains")
      edges3 == edges2 \o TripleEdges(CrossConnections)
      nodes3 == nodes2 \o [i \in 1..Len(SystemsAndProcesses) |-> SystemNode(SystemsAndProcesses[i])]
      edges4 == edges3 \o Flatten([i \in 1..Len(SystemsAndProcesses) |-> SystemEdges(SystemsAndProcesses[i])])
      edges5 == edges4 \o TermEdges(nodes3, SystemTypes, "utilizes")
      edges6 == edges5 \o TripleEdges(SystemConnections)
      ids    == {nodes3[i].id : i \in 1..Len(nodes3)}
      rels   == SelectSeq(EntityRelationships, LAMBDA t : t[1] \in ids /\ t[2] \in ids)
  IN [nodes |-> nodes3, edges |-> edges6 \o TripleEdges(rels)]

\* the key terms of the table in one reference order, and the iteration
\* orders of the set the model draws from
RefOrder ==
  <<"benefits", "conduct", "controls", "department", "development", "employee",
    "enterprise", "finance", "financial", "human resources", "operations",
    "policy", "training">>

HashOrders ==
  {RefOrder, Reverse(RefOrder), SubSeq(RefOrder, 6, 13) \o SubSeq(RefOrder, 1, 5),
   SubSeq(RefOrder, 10, 13) \o Reverse(SubSeq(RefOrder, 1, 9))}

\* ------------------------------------------- WeaviateClient.get_knowledge_graph

\* ', '.join(list)
RECURSIVE Join(_)
Join(s) ==
  IF s = <<>> THEN ""
  ELSE IF Len(s) = 1 THEN s[1]
  ELSE s[1] \o ", " \o Join(Tail(s))

\* str.lower() on the entity names of the model's documents
LowerEntity(e) ==
  CASE e = "GDPR" -> "gdpr"
    [] e = "Audit" -> "audit"
    [] e = "Payroll" -> "payroll"
    [] OTHER -> e

\* the results of the document query (weaviate_client.py:171-176): an error
\* reply without "data", a reply whose Document list is null or empty (both
\* falsy, written <<>>), and replies with documents, some without the
\* optional properties
QueryResults ==
  { [errors |-> "x"],
    [data |-> [Get |-> [Document |-> <<>>]]],
    [data |-> [Get |-> [Document |->
       << [filename |-> "gdpr.pdf", document_type |-> "policy", content |-> "text",
           entities |-> <<"GDPR", "Audit">>] >>]]],
    [data |-> [Get |-> [Document |->
       << [filename |-> "hr.pdf", document_type |-> "department", content |-> "text",
           entities |-> <<"Payroll", "GDPR", "Payroll">>],
          [content |-> ""],
          [filename |-> "audit.pdf", document_type |-> "entity",
           entities |-> <<"GDPR">>] >>]]],
    [data |-> [Get |-> [Document |->
       << [filename |-> "audit.pdf", content |-> "text",
           entities |-> <<"Audit", "GDPR", "Payroll", "SOX", "ISO", "KPI">>] >>]]] }

\* weaviate_client.py:186
HasRealDocuments(query_result) ==
  /\ "data" \in DOMAIN query_result
  /\ "Get" \in DOMAIN query_result.data
  /\ query_result.data.Get.Document # <<>>

\* weaviate_client.py:190-198; i is the index enumerate gives, from 0
RealDocNode(doc, i) ==
  [id |-> "doc_" \o ToString(i),
   label |-> Get(doc, "filename", "Document " \o ToString(i)),
   type |-> Get(doc, "document_type", "general"),
   entities |-> Get(doc, "entities", <<>>),
   content_preview |-> Get(doc, "content", "") \o "...",
   summary |-> "Document containing information about "
                 \o Join(Take(Get(doc, "entities", <<>>), 3)),
   key_terms |-> Take(Get(doc, "entities", <<>>), 5)]

\* weaviate_client.py:204-210
RealEntityNode(entity) ==
  [id |-> "entity_" \o entity, label |-> entity, type |-> "entity",
   summary |-> "Entity extracted from enterprise documents",
   key_terms |-> <<LowerEntity(entity)>>]

\* weaviate_client.py:203-221: the entities of document i, entity k onwards
RECURSIVE AddEntities(_, _, _, _)
AddEntities(g, i, entities, k) ==
  IF k > Len(entities) THEN g
  ELSE LET en == RealEntityNode(entities[k])
           ns == IF en \in Range(g.nodes) THEN g.nodes ELSE Append(g.nodes, en)
           es == Append(g.edges, [source |-> "doc_" \o ToString(i),
                                  target |-> "entity_" \o entities[k],
                                  label |-> "contains"])
       IN AddEntities([nodes |-> ns, edges |-> es], i, entities, k + 1)

\* weaviate_client.py:188-221: the documents from position j onwards
RECURSIVE AddDocuments(_, _, _)
AddDocuments(g, docs, j) ==
  IF j > Len(docs) THEN g
  ELSE LET g1 == [nodes |-> Append(g.nodes, RealDocNode(docs[j], j - 1)), edges |-> g.edges]
       IN AddDocuments(AddEntities(g1, j - 1, Get(docs[j], "entities", <<>>), 1), docs, j + 1)

\* a variant that answers a query without documents with the empty graph
GetKnowledgeGraphResultOrEmpty(client_is_none, raises, query_result, order) ==
  IF client_is_none THEN GenerateSampleGraph(order)
  ELSE IF raises THEN GenerateSampleGraph(order)
  ELSE IF HasRealDocuments(query_result)
    THEN AddDocuments([nodes |-> <<>>, edges |-> <<>>], query_result.data.Get.Document, 1)
    ELSE [nodes |-> <<>>, edges |-> <<>>]

\* weaviate_client.py:159-239.  client_is_none: self.client is None;
\* raises: the document query raised; query_result: what it returned
GetKnowledgeGraphResult(client_is_none, raises, query_result, order) ==
  IF client_is_none THEN GenerateSampleGraph(order)
  ELSE IF raises THEN GenerateSampleGraph(order)
  ELSE IF HasRealDocuments(query_result)
    THEN AddDocuments([nodes |-> <<>>, edges |-> <<>>], query_result.data.Get.Document, 1)
    ELSE GenerateSampleGraph(order)

\* ------------------------------------------------------- GET /graph (main.py)

\* a size rule with the two special sizes exchanged
NodeSizeSwapped(type) == IF type = "department" THEN 12 ELSE IF type = "entity" THEN 15 ELSE 10

\* main.py:241
NodeSize(type) == IF type = "department" THEN 15 ELSE IF type = "entity" THEN 12 ELSE 10

\* main.py:237-246
TransformNode(node) ==
  [id |-> Get(node, "id", "None"),
   name |-> Get(node, "label", Get(node, "name", "Unknown")),
   type |-> Get(node, "type", "unknown"),
   size |-> NodeSize(Get(node, "type", "None")),
   color |-> Get(node, "color", "#888888"),
   summary |-> Get(node, "summary", ""),
   key_terms |-> Get(node, "key_terms", <<>>),
   content_preview |-> Get(node, "content_preview", "")]

\* main.py:252-257; the fixed strength 0.7 is written in tenths
TransformEdge(edge) ==
  [source |-> Get(edge, "source", "None"), target |-> Get(edge, "target", "None"),
   type |-> Get(edge, "label", "related"), strength |-> 7]

\* main.py:234-270
GraphResponse(graph_data) ==
  LET transformed_nodes == Map(TransformNode, Get(graph_data, "nodes", <<>>))
      transformed_edges == Map(TransformEdge, Get(graph_data, "edges", <<>>))
  IN [message |-> "Knowledge graph retrieved",
      graph |-> [nodes |-> transformed_nodes, links |-> transformed_edges],
      node_count |-> Len(transformed_nodes),
      edge_count |-> Len(transformed_edges)]

\* ------------------------------------------------ HTTP handlers, continued


\* what the environment decides about one document query
QueryOutcomes ==
  {[raises |-> TRUE, result |-> [errors |-> "x"]]} \cup
  {[raises |-> FALSE, result |-> qr] : qr \in QueryResults}

\* the case of get_knowledge_graph a call falls in
GraphCase(out) ==
  IF weaviate_client = "mock" THEN "mock"
  ELSE IF out.raises THEN "raises"
  ELSE IF HasRealDocuments(out.result) THEN "documents" ELSE "no_documents"

GraphData(out) ==
  GetKnowledgeGraphResult(weaviate_client = "mock", out.raises, out.result, hash_order)

\* main.py:225-232, up to the await of get_knowledge_graph
GetKnowledgeGraph(r) ==
  /\ Begin(r, LET rq == NewReq("/graph", "") IN
                IF weaviate_client = "None" THEN Respond(rq, 500)
                ELSE [rq EXCEPT !.pc = "await_graph"])
  /\ OrchUnchanged /\ StoreUnchanged

\* main.py:232-270
GetKnowledgeGraphReturn(r) ==
  \E out \in QueryOutcomes :
    /\ req[r].pc = "await_graph" /\ req[r].h = "/graph"
    /\ weaviate_client = "mock" => out.raises
    /\ Continue(r, Respond([(IF GraphCase(out) = "raises" THEN Absorb(req[r]) ELSE req[r])
                              EXCEPT !.graph = [case |-> GraphCase(out), data |-> GraphData(out)],
                                     !.body = GraphResponse(GraphData(out))], 200))
    /\ OrchUnchanged /\ StoreUnchanged

\* main.py:276-293, up to the await of get_knowledge_graph
SearchWithGemini(r) ==
  \E q \in QueriesWithBlank :
    /\ Begin(r, LET rq == NewReq("/search/gemini", q) IN
                  IF gemini_client = "None" THEN RaiseInTry(rq, 503)
                  ELSE IF weaviate_client = "None" THEN RaiseInTry(rq, 503)
                  ELSE IF Strip(q) = "" THEN RaiseInTry(rq, 400)
                  ELSE [rq EXCEPT !.pc = "await_graph"])
    /\ OrchUnchanged /\ StoreUnchanged

\* main.py:316-332, up to the await of get_knowledge_graph
GenerateAiInsights(r) ==
  \E q \in Queries :
    /\ Begin(r, LET rq == NewReq("/insights/generate", q) IN
                  IF gemini_client = "None" THEN RaiseInTry(rq, 503)
                  ELSE IF weaviate_client = "None" THEN RaiseInTry(rq, 503)
                  ELSE [rq EXCEPT !.pc = "await_graph"])
    /\ OrchUnchanged /\ StoreUnchanged

\* main.py:293 and 332: the graph is back; the handler awaits the model
\* (find_relevant_nodes, generate_insights)
GraphForModel(r) ==
  \E raises \in BOOLEAN :
    /\ req[r].pc = "await_graph" /\ req[r].h \in {"/search/gemini", "/insights/generate"}
    /\ weaviate_client = "mock" => ~raises
    /\ Continue(r, [(IF raises THEN Absorb(req[r]) ELSE req[r]) EXCEPT
                      !.pc = "await_model", !.log = <<"graph">>])
    /\ OrchUnchanged /\ StoreUnchanged

\* main.py:296-310: find_relevant_nodes re-raises a failure of the model
\* (gemini_client.py:86-88) and replaces a reply it cannot parse by the first
\* nodes (gemini_client.py:180-188); then the handler awaits generate_summary
FindRelevantNodesReturn(r) ==
  \E out \in {"ok", "unparsable", "raises"} :
    /\ req[r].pc = "await_model" /\ req[r].h = "/search/gemini"
    /\ Continue(r, IF out = "raises" THEN ExternalFailure(req[r])
                   ELSE [req[r] EXCEPT !.pc = "await_summary",
                                       !.log = Append(@, "find_relevant_nodes")])
    /\ OrchUnchanged /\ StoreUnchanged

\* main.py:300-310: generate_summary replaces a failure of the model by a
\* fixed sentence (gemini_client.py:223-225)
GenerateSummaryReturn(r) ==
  \E ok \in BOOLEAN :
    /\ req[r].pc = "await_summary"
    /\ Continue(r, Respond([(IF ok THEN req[r] ELSE Absorb(req[r])) EXCEPT
                              !.log = Append(@, "generate_summary")], 200))
    /\ OrchUnchanged /\ StoreUnchanged

\* main.py:335-350: generate_insights replaces every failure by the fallback
\* insights (gemini_client.py:294-297)
GenerateInsightsReturn(r) ==
  \E ok \in BOOLEAN :
    /\ req[r].pc = "await_model" /\ req[r].h = "/insights/generate"
    /\ Continue(r, Respond([(IF ok THEN req[r] ELSE Absorb(req[r])) EXCEPT
                              !.log = Append(@, "generate_insights")], 200))
    /\ OrchUnchanged /\ StoreUnchanged

\* ---------------------------------------------------------------- GET /health

\* a health check that lets the exception of the readiness probe escape
WeaviateHealthCheckRaising(handle, out) ==
  IF handle = "mock" THEN "not_initialized"
  ELSE IF out = "ok" THEN "healthy"
  ELSE IF out = "not_ok" THEN "unhealthy"
  ELSE "raise"

\* weaviate_client.py:593-606
WeaviateHealthCheck(handle, out) ==
  IF handle = "mock" THEN "not_initialized"
  ELSE IF out = "ok" THEN "healthy"
  ELSE IF out = "not_ok" THEN "unhealthy"
  ELSE "error"

\* friendli_client.py:196-212
FriendliHealthCheck(handle, out) ==
  IF handle = "unconnected" THEN "not_initialized"
  ELSE IF out = "ok" THEN "healthy"
  ELSE IF out = "not_ok" THEN "unhealthy"
  ELSE "error"

\* gemini_client.py:420-435
GeminiHealthCheck(handle, out) ==
  IF out = "ok" THEN "healthy"
  ELSE IF out = "not_ok" THEN "unhealthy"
  ELSE "error"

\* aws_tools.py:266-283
AwsHealthCheck(handle, out) ==
  IF out = "ok" THEN "healthy"
  ELSE IF out = "not_ok" THEN "partial"
  ELSE "error"

HealthOrder == <<"health_weaviate", "health_friendli", "health_gemini", "health_aws">>

\* main.py:107-110: the status one line of the handler computes; "raise"
\* stands for an exception leaving the awaited health_check
ServiceStatus(pc, out) ==
  CASE pc = "health_weaviate" ->
         IF weaviate_client = "None" THEN "not_initialized"
         ELSE WeaviateHealthCheck(weaviate_client, out)
    [] pc = "health_friendli" ->
         IF friendli_client = "None" THEN "not_initialized"
         ELSE FriendliHealthCheck(friendli_client, out)
    [] pc = "health_gemini" ->
         IF gemini_client = "None" THEN "not_initialized"
         ELSE GeminiHealthCheck(gemini_client, out)
    [] pc = "health_aws" ->
         IF aws_tools = "None" THEN "not_initialized"
         ELSE AwsHealthCheck(aws_tools, out)

\* main.py:103-106
HealthCheck(r) ==
  /\ Begin(r, [NewReq("/health", "") EXCEPT !.pc = "health_weaviate"])
  /\ OrchUnchanged /\ StoreUnchanged

\* main.py:107-127, one awaited health_check per step
HealthCheckStep(r) ==
  \E out \in {"ok", "not_ok", "raises"} :
    /\ req[r].pc \in Range(HealthOrder)
    /\ LET st == ServiceStatus(req[r].pc, out)
           k  == CHOOSE i \in 1..Len(HealthOrder) : HealthOrder[i] = req[r].pc
           rq == IF st \in {"error", "raise"} THEN Absorb(req[r]) ELSE req[r]
       IN Continue(r, IF st = "raise" THEN Respond([rq EXCEPT !.absorbed = FALSE], 503)
                      ELSE IF k = Len(HealthOrder) THEN Respond(rq, 200)
                      ELSE [rq EXCEPT !.pc = HealthOrder[k + 1]])
    /\ OrchUnchanged /\ StoreUnchanged

\* --------------------------------------------------------------- POST /upload

\* main.py:129-144, up to the await of extract_text_from_document
UploadDocument(r) ==
  \E filename \in {"", "f.pdf"} :
    /\ Begin(r, LET rq == NewReq("/upload", filename) IN
                  IF filename = "" THEN RaiseInTry(rq, 400)
                  ELSE IF aws_tools = "None" THEN Respond(rq, 500)
                  ELSE [rq EXCEPT !.pc = "await_textract", !.log = <<"extract_text">>])
    /\ OrchUnchanged /\ StoreUnchanged

\* main.py:144-147; extract_text_from_document re-raises (aws_tools.py:130-135)
UploadTextExtracted(r) ==
  \E ok \in BOOLEAN :
    /\ req[r].pc = "await_textract"
    /\ Continue(r, IF ok THEN [req[r] EXCEPT !.pc = "await_s3", !.log = Append(@, "store_s3")]
                   ELSE ExternalFailure(req[r]))
    /\ OrchUnchanged /\ StoreUnchanged

\* store_document_in_s3 (aws_tools.py:137-173) writes the file, then the
\* extracted text; written is the number of writes that succeeded
ObjectsAfter(n, written) == n + written

\* main.py:147-150
UploadStored(r) ==
  \E written \in 0..2 :
    /\ req[r].pc = "await_s3"
    /\ s3_objects' = ObjectsAfter(s3_objects, written)
    /\ Continue(r, IF written = 2
                     THEN [req[r] EXCEPT !.pc = "await_entities", !.log = Append(@, "extract_entities")]
                     ELSE ExternalFailure(req[r]))
    /\ OrchUnchanged
    /\ UNCHANGED vector_docs

\* extract_entities (aws_tools.py:175-208) returns [] when the extractor fails
ExtractEntities(rq, ok) == IF ok THEN rq ELSE Absorb(rq)

\* an upload that treats a failed entity extraction like the other failures
UploadEntitiesExtractedStrict(r) ==
  \E ok \in BOOLEAN :
    /\ req[r].pc = "await_entities"
    /\ LET rq == req[r] IN
         Continue(r, IF ~ok THEN ExternalFailure(rq)
                     ELSE IF weaviate_client = "None" THEN Respond(rq, 500)
                     ELSE IF weaviate_client = "mock"
                       THEN Respond([rq EXCEPT !.log = Append(@, "store_document")], 500)
                     ELSE [rq EXCEPT !.pc = "await_store", !.log = Append(@, "store_document")])
    /\ OrchUnchanged /\ StoreUnchanged

\* main.py:150-153: with no Weaviate connection store_document raises at
\* weaviate_client.py:111 and re-raises
UploadEntitiesExtracted(r) ==
  \E ok \in BOOLEAN :
    /\ req[r].pc = "await_entities"
    /\ LET rq == ExtractEntities(req[r], ok) IN
         Continue(r, IF weaviate_client = "None" THEN Respond(rq, 500)
                     ELSE IF weaviate_client = "mock"
                       THEN Respond([rq EXCEPT !.log = Append(@, "store_document")], 500)
                     ELSE [rq EXCEPT !.pc = "await_store", !.log = Append(@, "store_document")])
    /\ OrchUnchanged /\ StoreUnchanged

\* main.py:153-176
UploadIndexed(r) ==
  \E ok \in BOOLEAN :
    /\ req[r].pc = "await_store"
    /\ vector_docs' = IF ok THEN vector_docs + 1 ELSE vector_docs
    /\ Continue(r, IF ok THEN Respond(req[r], 200) ELSE ExternalFailure(req[r]))
    /\ OrchUnchanged
    /\ UNCHANGED s3_objects

\* ------------------------------------------------------------ specifications

\* the handles an embedder (a test, a script) gives the module when the app
\* runs without lifespan; the first is the module as imported (main.py:31-35)
\* (i: the embedder awaited the orchestrator's initialize before serving)
Deployments ==
  { [w |-> "None", f |-> "None", g |-> "None", a |-> "None", o |-> "None", i |-> FALSE],
    [w |-> "None", f |-> "None", g |-> "ready", a |-> "None", o |-> "None", i |-> FALSE],
    [w |-> "mock", f |-> "unconnected", g |-> "ready", a |-> "obj", o |-> "obj", i |-> FALSE],
    [w |-> "connected", f |-> "connected", g |-> "ready", a |-> "obj", o |-> "obj", i |-> TRUE] }

InitCommon ==
  /\ req = [r \in Reqs |-> IdleReq]
  /\ done = IdleReq
  /\ ncalls = 0
  /\ s3_objects = 0
  /\ vector_docs = 0
  /\ documents = <<>>
  /\ ranked = [of |-> <<>>, result |-> <<>>]
  /\ patterns = [of |-> <<>>, result |-> NoPatterns]
  /\ call = NoCall

Init ==
  /\ InitCommon
  /\ hash_order = RefOrder
  /\ wired \in BOOLEAN
  /\ started = ~wired
  /\ \E d \in Deployments :
       /\ wired => d.w = "None" /\ d.g = "None"
       /\ weaviate_client = d.w
       /\ friendli_client = d.f
       /\ gemini_client = d.g
       /\ aws_tools = d.a
       /\ agent_orchestrator = d.o
       /\ agent_obj = [a \in AgentNames |-> d.i]
       /\ agent_status = IF d.i THEN Initialized ELSE Constructed
       /\ init_pc = IF d.i THEN Len(AgentOrder) + 1 ELSE 0

Handler(r) ==
  \/ Root(r)
  \/ HealthCheck(r) \/ HealthCheckStep(r)
  \/ UploadDocument(r) \/ UploadTextExtracted(r) \/ UploadStored(r)
  \/ UploadEntitiesExtracted(r) \/ UploadIndexed(r)
  \/ RunAgents(r) \/ Step1Planning(r) \/ Step2Retrieval(r) \/ Step3Analysis(r) \/ Step4Report(r)
  \/ AskFriendli(r) \/ AskFriendliReturn(r)
  \/ GetKnowledgeGraph(r) \/ GetKnowledgeGraphReturn(r)
  \/ SearchWithGemini(r) \/ GenerateAiInsights(r) \/ GraphForModel(r)
  \/ FindRelevantNodesReturn(r) \/ GenerateSummaryReturn(r) \/ GenerateInsightsReturn(r)
  \/ GetAgentStatus(r)
  \/ DemoRunAgents(r) \/ DemoRunAgentsReturn(r)

Next ==
  \/ Lifespan
  \/ \E r \in Reqs : Handler(r)

Spec == Init /\ [][Next]_vars

\* the orchestrator object on its own: constructed with its three clients,
\* then driven by direct calls of its methods
InitOrch ==
  /\ InitCommon
  /\ hash_order = RefOrder
  /\ wired = FALSE
  /\ started = TRUE
  /\ weaviate_client = "connected"
  /\ friendli_client = "connected"
  /\ gemini_client = "None"
  /\ aws_tools = "obj"
  /\ agent_orchestrator = "obj"
  /\ agent_obj = [a \in AgentNames |-> FALSE]
  /\ agent_status = Constructed
  /\ init_pc = 1

OrchCall(r) ==
  \/ ProcessQuery(r)
  \/ Step1Planning(r) \/ Step2Retrieval(r) \/ Step3Analysis(r) \/ Step4Report(r)
  \/ ResetAgents(r)
  \/ GetStatus(r)

NextOrch ==
  \/ OrchInitialize
  \/ \E r \in Reqs : OrchCall(r)

SpecOrch == InitOrch /\ [][NextOrch]_vars

\* -------------------------------------------- RetrieverAgent._rank_documents

\* the documents of a retrieval result: certainty is in tenths (3 is 0.3),
\* content is the length of the text; either key may be absent.  filename
\* tells the documents of one list apart
Certainties == {3, 6}

ContentLengths == {3000, 10000, 20000}

RetrievedDocs(name) ==
  LET withC == {[filename |-> name, certainty |-> c] : c \in Certainties}
                 \cup {[filename |-> name]}
      AddLen(d) == {d} \cup {[k \in DOMAIN d \cup {"content"} |->
                               IF k = "content" THEN n ELSE d[k]] : n \in ContentLengths}
  IN UNION {AddLen(d) : d \in withC}

\* a sort key without the cap on the length term
ScoreUncapped(x) == Get(x, "certainty", 0) * 7000 + Get(x, "content", 0) * 3

\* the sort key of retriever.py:131-134 times 100000:
\* certainty * 0.7 + min(len(content) / 10000, 1) * 0.3
Score(x) == Get(x, "certainty", 0) * 7000 + Min(Get(x, "content", 0), 10000) * 3

\* sorted(..., reverse = True) is stable: an element goes behind the elements
\* already placed whose key is not smaller
RECURSIVE InsertByKeyDesc(_, _)
InsertByKeyDesc(sorted, x) ==
  IF sorted = <<>> THEN <<x>>
  ELSE IF Score(Head(sorted)) >= Score(x)
    THEN <<Head(sorted)>> \o InsertByKeyDesc(Tail(sorted), x)
    ELSE <<x>> \o sorted

RECURSIVE SortedDesc(_, _)
SortedDesc(acc, rest) ==
  IF rest = <<>> THEN acc ELSE SortedDesc(InsertByKeyDesc(acc, Head(rest)), Tail(rest))

\* retriever.py:123-143
RankDocuments(docs) == SortedDesc(<<>>, docs)

NameOf(i) == "doc" \o ToString(i)

\* a retrieval result grows by one document
AddRetrieved ==
  /\ Len(documents) < MaxDocs
  /\ \E d \in RetrievedDocs(NameOf(Len(documents) + 1)) : documents' = Append(documents, d)
  /\ UNCHANGED <<wired, started, handles, agent_obj, agent_status, init_pc, req, done,
                 ncalls, s3_objects, vector_docs, hash_order, ranked, patterns, call>>

\* retriever.py:68
Rank ==
  /\ ranked' = [of |-> documents, result |-> RankDocuments(documents)]
  /\ UNCHANGED <<wired, started, handles, agent_obj, agent_status, init_pc, req, done,
                 ncalls, s3_objects, vector_docs, hash_order, documents, patterns, call>>

InitDocs ==
  /\ InitCommon
  /\ hash_order = RefOrder
  /\ wired = FALSE
  /\ started = FALSE
  /\ weaviate_client = "None"
  /\ friendli_client = "None"
  /\ gemini_client = "None"
  /\ aws_tools = "None"
  /\ agent_orchestrator = "None"
  /\ agent_obj = [a \in AgentNames |-> FALSE]
  /\ agent_status = Constructed
  /\ init_pc = 0

SpecRank == InitDocs /\ [][AddRetrieved \/ Rank]_vars

\* --------------------------------------------- AnalyzerAgent._detect_patterns

\* analyzer.py:253, the slice [:10]
TopPatterns == 10

EntityLists ==
  { <<>>, <<"e1">>, <<"e2", "e1", "e2">>,
    <<"e1", "e2", "e3", "e4", "e5", "e6", "e7", "e8", "e9", "e10", "e11">>,
    <<"e12", "e11", "e3">> }

\* the documents _detect_patterns is given: document_type and entities may be absent
TypedDocs ==
  LET withT == {[document_type |-> t] : t \in {"policy", "report"}} \cup {[content |-> 0]}
      AddEnt(d) == {d} \cup {[k \in DOMAIN d \cup {"entities"} |->
                               IF k = "entities" THEN es ELSE d[k]] : es \in EntityLists}
  IN UNION {AddEnt(d) : d \in withT}

\* d[key] = d.get(key, 0) + 1 on a dict kept as the sequence of its items in
\* insertion order
RECURSIVE Increment(_, _)
Increment(items, key) ==
  IF items = <<>> THEN << <<key, 1>> >>
  ELSE IF Head(items)[1] = key
    THEN << <<key, Head(items)[2] + 1>> >> \o Tail(items)
    ELSE <<Head(items)>> \o Increment(Tail(items), key)

RECURSIVE CountAll(_, _)
CountAll(items, keys) ==
  IF keys = <<>> THEN items ELSE CountAll(Increment(items, Head(keys)), Tail(keys))

\* sorted(items, key = count, reverse = True), stable
RECURSIVE InsertByCountDesc(_, _)
InsertByCountDesc(sorted, x) ==
  IF sorted = <<>> THEN <<x>>
  ELSE IF Head(sorted)[2] >= x[2]
    THEN <<Head(sorted)>> \o InsertByCountDesc(Tail(sorted), x)
    ELSE <<x>> \o sorted

RECURSIVE SortByCountDesc(_, _)
SortByCountDesc(acc, rest) ==
  IF rest = <<>> THEN acc ELSE SortByCountDesc(InsertByCountDesc(acc, Head(rest)), Tail(rest))

\* the sorted entity counts without the slice
AllEntityPatterns(items) == SortByCountDesc(<<>>, items)

\* analyzer.py:249-253
TopEntityPatterns(items) == Take(SortByCountDesc(<<>>, items), TopPatterns)

\* analyzer.py:236
DocType(doc) == Get(doc, "document_type", "unknown")

\* analyzer.py:228-260
DetectPatterns(docs) ==
  LET doc_types == CountAll(<<>>, [i \in 1..Len(docs) |-> DocType(docs[i])])
      all_entities == Flatten([i \in 1..Len(docs) |-> Get(docs[i], "entities", <<>>)])
      entity_patterns == CountAll(<<>>, all_entities)
  IN [document_type_distribution |->
        [t \in {doc_types[i][1] : i \in 1..Len(doc_types)} |->
           doc_types[CHOOSE i \in 1..Len(doc_types) : doc_types[i][1] = t][2]],
      entity_patterns |-> TopEntityPatterns(entity_patterns),
      pattern_analysis_method |-> "frequency_analysis",
      total_patterns_identified |-> Len(entity_patterns)]

\* the analysed list grows by one document
AddTyped ==
  /\ Len(documents) < MaxDocs
  /\ \E d \in TypedDocs : documents' = Append(documents, d)
  /\ UNCHANGED <<wired, started, handles, agent_obj, agent_status, init_pc, req, done,
                 ncalls, s3_objects, vector_docs, hash_order, ranked, patterns, call>>

\* analyzer.py:79
Detect ==
  /\ patterns' = [of |-> documents, result |-> DetectPatterns(documents)]
  /\ UNCHANGED <<wired, started, handles, agent_obj, agent_status, init_pc, req, done,
                 ncalls, s3_objects, vector_docs, hash_order, documents, ranked, call>>

SpecPatterns == InitDocs /\ [][AddTyped \/ Detect]_vars

\* ------------------------------------------------ the knowledge graph alone

\* a process with one hash seed and a Weaviate wrapper, in mock mode or
\* connected, serving GET /graph
InitGraph ==
  /\ InitCommon
  /\ hash_order \in HashOrders
  /\ wired = FALSE
  /\ started = TRUE
  /\ weaviate_client \in {"mock", "connected"}
  /\ friendli_client = "None"
  /\ gemini_client = "None"
  /\ aws_tools = "None"
  /\ agent_orchestrator = "None"
  /\ agent_obj = [a \in AgentNames |-> FALSE]
  /\ agent_status = Constructed
  /\ init_pc = 0

NextGraph == \E r \in Reqs : GetKnowledgeGraph(r) \/ GetKnowledgeGraphReturn(r)

SpecGraph == InitGraph /\ [][NextGraph]_vars

\* ------------------------------------------ GeminiClient.find_relevant_nodes

MaxNodes == 4

\* gemini_client.py:41, the default of the parameter limit
DefaultLimit == 10

\* gemini_client.py:185, the slice [:5] of the fallback
FallbackNodes == 5

NodeIdOf(i) == "node" \o ToString(i)

\* the nodes handed to find_relevant_nodes: the first n nodes of a graph
GraphNodes(n) == [i \in 1..n |-> [id |-> NodeIdOf(i)]]

Limits == {1, 2, DefaultLimit}

\* relevance_scores of a reply, in tenths; an id without entry gets 0.0
\* (gemini_client.py:166)
RelevanceScores ==
  { <<>>,
    << <<"node1", 2>>, <<"node2", 9>>, <<"node3", 9>> >> }

ScoreOf(scores, id) ==
  IF \E i \in 1..Len(scores) : scores[i][1] = id
    THEN scores[CHOOSE i \in 1..Len(scores) : scores[i][1] = id][2]
    ELSE 0

\* what the model does with the prompt: the call raises, the text holds no
\* JSON object, or it holds one with any list of ids, among them ids of no
\* node; the prompt's request for "the top {limit}" nodes
\* (gemini_client.py:136) does not bind the model
ModelReplies ==
  {[kind |-> "raises"], [kind |-> "no_json"]}
    \cup {[kind |-> "json", relevant_node_ids |-> ids, relevance_scores |-> sc] :
            ids \in SUBSET ({NodeIdOf(i) : i \in 1..MaxNodes} \cup {"ghost"}),
            sc \in RelevanceScores}

\* list.sort(key = relevance_score, reverse = True) is stable
\* (gemini_client.py:171)
RECURSIVE InsertByRelevanceDesc(_, _)
InsertByRelevanceDesc(sorted, x) ==
  IF sorted = <<>> THEN <<x>>
  ELSE IF Head(sorted).relevance_score >= x.relevance_score
    THEN <<Head(sorted)>> \o InsertByRelevanceDesc(Tail(sorted), x)
    ELSE <<x>> \o sorted

RECURSIVE SortByRelevanceDesc(_, _)
SortByRelevanceDesc(acc, rest) ==
  IF rest = <<>> THEN acc
  ELSE SortByRelevanceDesc(InsertByRelevanceDesc(acc, Head(rest)), Tail(rest))

\* gemini_client.py:160-168: the nodes whose id the reply lists, in the order
\* of original_nodes, from position i onwards
RECURSIVE EnhancedNodes(_, _, _)
EnhancedNodes(original_nodes, reply, i) ==
  IF i > Len(original_nodes) THEN <<>>
  ELSE LET node == original_nodes[i]
           rest == EnhancedNodes(original_nodes, reply, i + 1)
       IN IF node.id \in reply.relevant_node_ids
            THEN << [id |-> node.id,
                     relevance_score |-> ScoreOf(reply.relevance_scores, node.id)] >> \o rest
            ELSE rest

\* gemini_client.py:141-188
ParseSearchResponse(reply, original_nodes) ==
  IF reply.kind = "json"
    THEN LET relevant_nodes == SortByRelevanceDesc(<<>>, EnhancedNodes(original_nodes, reply, 1))
         IN [relevant_nodes |-> relevant_nodes,
             total_analyzed |-> Len(original_nodes),
             total_relevant |-> Len(relevant_nodes)]
    ELSE [relevant_nodes |-> Take(original_nodes, FallbackNodes),
          total_analyzed |-> Len(original_nodes),
          total_relevant |-> Min(FallbackNodes, Len(original_nodes))]

\* gemini_client.py:41-88: limit goes into the prompt (line 74) and nowhere else
FindRelevantNodes ==
  \E n \in 0..MaxNodes, limit \in Limits, reply \in ModelReplies :
    /\ call' = [fn |-> "find_relevant_nodes", nodes |-> GraphNodes(n), limit |-> limit,
                reply |-> reply,
                raised |-> (reply.kind = "raises"),
                result |-> IF reply.kind = "raises" THEN <<>>
                           ELSE ParseSearchResponse(reply, GraphNodes(n))]
    /\ UNCHANGED <<wired, started, handles, agent_obj, agent_status, init_pc, req, done,
                   ncalls, s3_objects, vector_docs, hash_order, documents, ranked, patterns>>

\* a process that holds an initialized GeminiClient (gemini_client.py:21-39)
InitSearch ==
  /\ InitCommon
  /\ hash_order = RefOrder
  /\ wired = FALSE
  /\ started = TRUE
  /\ weaviate_client = "None"
  /\ friendli_client = "None"
  /\ gemini_client = "ready"
  /\ aws_tools = "None"
  /\ agent_orchestrator = "None"
  /\ agent_obj = [a \in AgentNames |-> FALSE]
  /\ agent_status = Constructed
  /\ init_pc = 0

SpecSearch == InitSearch /\ [][FindRelevantNodes]_vars

\* ------------------------------------------------ the Lambda handlers (src/aws)

\* the query strings of the model; the first is the empty string
LambdaQueries == {"", "q", "Compliance audit", "data privacy", "privacy policy", "policy"}

\* json.dumps of a dict whose only key may be "query"
DumpsQueryObject(q) == "{\"query\": \"" \o q \o "\"}"

\* the texts an event carries as 'body'
BodyTexts ==
  {DumpsQueryObject(q) : q \in LambdaQueries} \cup {"{}", "[]", "null", "not json", ""}

\* json.loads on the texts of the model: ok is FALSE when it raises
\* JSONDecodeError; kind tells a dict from the other JSON values
JsonLoads(text) ==
  IF \E q \in LambdaQueries : text = DumpsQueryObject(q)
    THEN [ok |-> TRUE, kind |-> "dict",
          value |-> [query |-> CHOOSE q \in LambdaQueries : text = DumpsQueryObject(q)]]
  ELSE IF text = "{}" THEN [ok |-> TRUE, kind |-> "dict", value |-> [other |-> "x"]]
  ELSE IF text = "[]" THEN [ok |-> TRUE, kind |-> "list", value |-> <<>>]
  ELSE IF text = "null" THEN [ok |-> TRUE, kind |-> "None", value |-> <<>>]
  ELSE [ok |-> FALSE, kind |-> "error", value |-> <<>>]

\* the events of an invocation: a direct one (a dict with or without
\* 'query') and a proxied one with a 'body' text, with or without a 'query'
\* key of its own next to it
LambdaEvents ==
  {[query |-> q] : q \in LambdaQueries} \cup {[other |-> "x"]}
    \cup {[body |-> t] : t \in BodyTexts}
    \cup {[body |-> t, query |-> q] : t \in BodyTexts, q \in {"", "q"}}

\* the words `word in query.lower()` finds in the model's queries
WordsIn(query) ==
  CASE query = "Compliance audit" -> {"compliance"}
    [] query = "data privacy" -> {"data privacy", "privacy"}
    [] query = "privacy policy" -> {"privacy", "policy"}
    [] query = "policy" -> {"policy"}
    [] OTHER -> {}

\* ask_lambda.py:65-162: which of the four texts is returned
SimulateFriendliResponse(query) ==
  IF "compliance" \in WordsIn(query) THEN [text |-> "compliance", about |-> query]
  ELSE IF "data privacy" \in WordsIn(query) \/ "privacy" \in WordsIn(query)
    THEN [text |-> "privacy", about |-> query]
  ELSE IF "policy" \in WordsIn(query) THEN [text |-> "policy", about |-> query]
  ELSE [text |-> "general", about |-> query]

\* run_agents_lambda.py:69-228: the fixed workflow result around the query
SimulateAgentWorkflow(query) ==
  [query |-> query,
   workflow_status |-> "completed",
   agent_status |-> [a \in AgentNames |-> "completed"]]

\* json.dumps of a response body: the dict, marked as serialized
JsonDumps(d) == [json |-> d]

LambdaResponse(code, d, simulated) ==
  [statusCode |-> code, body |-> JsonDumps(d), simulated |-> simulated]

\* a handler that prefers the event's own keys and decodes 'body' only when
\* the event has no 'query'
LambdaBodyEventFirst(event) ==
  IF "body" \in DOMAIN event /\ "query" \notin DOMAIN event
    THEN LET parsed == JsonLoads(event.body)
         IN IF parsed.ok /\ parsed.kind = "dict"
              THEN [raised |-> FALSE, body |-> parsed.value]
              ELSE [raised |-> TRUE, body |-> <<>>]
    ELSE [raised |-> FALSE, body |-> event]

\* lines 17-22 (ask), 20-25 (run agents): the dict the query is read from;
\* a 'body' that does not decode, or decodes to something that is no dict,
\* raises inside the try block
LambdaBody(event) ==
  IF "body" \in DOMAIN event
    THEN LET parsed == JsonLoads(event.body)
         IN IF parsed.ok /\ parsed.kind = "dict"
              THEN [raised |-> FALSE, body |-> parsed.value]
              ELSE [raised |-> TRUE, body |-> <<>>]
    ELSE [raised |-> FALSE, body |-> event]

\* ask_lambda.py:11-63
AskLambdaHandler(event) ==
  LET b == LambdaBody(event)
  IN IF b.raised
       THEN LambdaResponse(500, [error |-> "Friendli query failed"], FALSE)
     ELSE LET query == Get(b.body, "query", "")
          IN IF query = ""
               THEN LambdaResponse(400, [error |-> "Query is required"], FALSE)
               ELSE LambdaResponse(200, [message |-> "Friendli AI response generated",
                                         query |-> query,
                                         response |-> SimulateFriendliResponse(query)], TRUE)

\* run_agents_lambda.py:14-67
RunAgentsLambdaHandler(event) ==
  LET b == LambdaBody(event)
  IN IF b.raised
       THEN LambdaResponse(500, [error |-> "Agent execution failed"], FALSE)
     ELSE LET query == Get(b.body, "query", "")
          IN IF query = ""
               THEN LambdaResponse(400, [error |-> "Query is required"], FALSE)
               ELSE LambdaResponse(200, [message |-> "Agents completed successfully",
                                         query |-> query,
                                         result |-> SimulateAgentWorkflow(query),
                                         agents_executed |-> AgentOrder], TRUE)

LambdaUnchanged ==
  UNCHANGED <<wired, started, handles, agent_obj, agent_status, init_pc, req, done,
              s3_objects, vector_docs, hash_order, documents, ranked, patterns>>

\* one invocation of the ask function in a container
InvokeAskLambda ==
  \E event \in LambdaEvents :
    /\ ncalls < MaxRequests
    /\ ncalls' = ncalls + 1
    /\ call' = [fn |-> "ask_lambda", event |-> event, result |-> AskLambdaHandler(event)]
    /\ LambdaUnchanged

\* one invocation of the run-agents function in a container
InvokeRunAgentsLambda ==
  \E event \in LambdaEvents :
    /\ ncalls < MaxRequests
    /\ ncalls' = ncalls + 1
    /\ call' = [fn |-> "run_agents_lambda", event |-> event,
                result |-> RunAgentsLambdaHandler(event)]
    /\ LambdaUnchanged

\* the handlers use none of the backend's handles
InitLambda ==
  /\ InitCommon
  /\ hash_order = RefOrder
  /\ wired = FALSE
  /\ started = FALSE
  /\ weaviate_client = "None"
  /\ friendli_client = "None"
  /\ gemini_client = "None"
  /\ aws_tools = "None"
  /\ agent_orchestrator = "None"
  /\ agent_obj = [a \in AgentNames |-> FALSE]
  /\ agent_status = Constructed
  /\ init_pc = 0

SpecLambda == InitLambda /\ [][InvokeAskLambda \/ InvokeRunAgentsLambda]_vars

\* ----------------------------------- the report of the orchestrated workflow

\* retriever.py:73-84: the retrieval result for n ranked documents
RetrievalResult(n) == [documents_found |-> n, documents_returned |-> n]

\* what the language model does with the analysis prompt (analyzer.py:136):
\* it answers with a text, with the empty text, or the call raises
AnalysisOutcomes == {"text", "empty", "raises"}

\* analyzer.py:103-146
PerformDocumentAnalysis(outcome, n) ==
  IF outcome = "raises"
    THEN [error |-> "e", analysis_text |-> "Analysis failed"]
    ELSE [analysis_text |-> IF outcome = "text" THEN "Key findings" ELSE "",
          documents_processed |-> n,
          analysis_type |-> "comprehensive_document_analysis"]

EntitiesPerDocument == {0, 1, 2}

\* what entity extraction does: it finds per_doc entities in each document,
\* or an exception is raised inside the loop
EntityOutcomes ==
  {[raises |-> FALSE, per_doc |-> k] : k \in EntitiesPerDocument}
    \cup {[raises |-> TRUE, per_doc |-> 0]}

\* analyzer.py:148-190
ExtractEntitiesFromDocuments(extraction, n) ==
  IF extraction.raises
    THEN [error |-> "e", total_entities |-> 0]
    ELSE [total_entities |-> n * extraction.per_doc,
          entity_extraction_method |-> "aws_comprehend"]

\* analyzer.py:81-94: the result of analyze_documents
AnalyzerResult(outcome, extraction, n) ==
  [documents_analyzed |-> n,
   analysis_results |-> PerformDocumentAnalysis(outcome, n),
   entity_analysis |-> ExtractEntitiesFromDocuments(extraction, n)]

\* orchestrator.py:121-125: the dict generate_report is called with
ReportInput(retrieval_results, analysis_results, planning_results) ==
  [retrieval_results |-> retrieval_results,
   analysis_results |-> analysis_results,
   planning_results |-> planning_results]

\* the truth value of a Python string or None
Truthy(v) == v # "None" /\ v # ""

\* reporter.py:270-293; the second factor reads "analysis_text" from the
\* analyzer's result itself, the third "entity_analysis" from the same dict
AssessConfidenceLevel(analysis_results) ==
  LET f1 == IF Get(Get(analysis_results, "retrieval_results", <<>>), "documents_returned", 0) > 0
              THEN 1 ELSE 0
      f2 == IF Truthy(Get(Get(analysis_results, "analysis_results", <<>>), "analysis_text", "None"))
              THEN 1 ELSE 0
      f3 == IF Get(Get(Get(analysis_results, "analysis_results", <<>>),
                       "entity_analysis", <<>>), "total_entities", 0) > 0
              THEN 1 ELSE 0
      confidence_factors == f1 + f2 + f3
  IN IF confidence_factors >= 3 THEN "high"
     ELSE IF confidence_factors >= 2 THEN "medium"
     ELSE "low"

\* reporter.py:137-176, the executive summary
CreateStructuredReport(analysis_results) ==
  [executive_summary |->
     [documents_analyzed |->
        Get(Get(analysis_results, "retrieval_results", <<>>), "documents_returned", 0),
      confidence_level |-> AssessConfidenceLevel(analysis_results)]]

\* orchestrator.py:102-128: steps 2 to 4 of a run, from what the retriever,
\* the language model and the entity extractor produce
GenerateReport ==
  \E n \in 0..MaxDocs, outcome \in AnalysisOutcomes,
     extraction \in EntityOutcomes, intent \in IntentAnalyses :
    LET retrieval_results == RetrievalResult(n)
        analysis_results == AnalyzerResult(outcome, extraction, n)
        planning_results == [next_agents |-> DetermineNextAgents(intent)]
    IN /\ call' = [fn |-> "generate_report",
                   retrieval_results |-> retrieval_results,
                   analysis_results |-> analysis_results,
                   planning_results |-> planning_results,
                   result |-> [structured_report |->
                                 CreateStructuredReport(
                                   ReportInput(retrieval_results, analysis_results,
                                               planning_results))]]
       /\ UNCHANGED <<wired, started, handles, agent_obj, agent_status, init_pc, req, done,
                      ncalls, s3_objects, vector_docs, hash_order, documents, ranked, patterns>>

\* an orchestrator whose four agents are initialized
InitReport ==
  /\ InitCommon
  /\ hash_order = RefOrder
  /\ wired = FALSE
  /\ started = TRUE
  /\ weaviate_client = "connected"
  /\ friendli_client = "connected"
  /\ gemini_client = "None"
  /\ aws_tools = "obj"
  /\ agent_orchestrator = "obj"
  /\ agent_obj = [a \in AgentNames |-> TRUE]
  /\ agent_status = Initialized
  /\ init_pc = Len(AgentOrder) + 1

SpecReport == InitReport /\ [][GenerateReport]_vars

\* ------------------------------------------------ PlannerAgent.process_query

IntentFlags == {"needs_retrieval", "needs_analysis", "needs_summarization"}

\* the JSON objects a reply to the intent prompt may hold: any of the three
\* flags present or absent, with or without "complexity"
JsonIntentDicts ==
  UNION {{f, [k \in DOMAIN f \cup {"complexity"} |-> IF k = "complexity" THEN "simple" ELSE f[k]]}
           : f \in UNION {[S -> BOOLEAN] : S \in SUBSET IntentFlags}}

\* what friendli_client.query does with the intent prompt (planner.py:102),
\* described by what json.loads makes of the text: the call raises, the text
\* is no JSON ("invalid"), or it is a JSON document: an object, an array, a
\* string, a number or null
IntentReplies ==
  {[raises |-> TRUE, json |-> "none", value |-> <<>>],
   [raises |-> FALSE, json |-> "invalid", value |-> <<>>]}
    \cup {[raises |-> FALSE, json |-> "dict", value |-> d] : d \in JsonIntentDicts}
    \cup {[raises |-> FALSE, json |-> k, value |-> <<>>] : k \in {"list", "str", "number", "None"}}

\* planner.py:109-116 and 123-130
FallbackAnalysis ==
  [intent |-> "general_query", complexity |-> "moderate",
   needs_retrieval |-> TRUE, needs_analysis |-> TRUE, needs_summarization |-> TRUE]

\* planner.py:85-130: the value bound to intent_analysis, with its Python type
AnalyzeQueryIntent(reply) ==
  IF reply.raises \/ reply.json = "invalid"
    THEN [type |-> "dict", value |-> FallbackAnalysis]
    ELSE [type |-> reply.json, value |-> reply.value]

\* planner.py:132-186: intent_analysis.get at line 174 raises AttributeError
\* on a value that is no dict; the except clause returns the empty plan
CreateWorkflowPlan(intent_analysis, plan_raises) ==
  IF plan_raises \/ intent_analysis.type # "dict"
    THEN [steps |-> <<>>, error |-> "e"]
    ELSE [steps |-> <<"RetrieverAgent", "AnalyzerAgent", "ReporterAgent">>,
          estimated_complexity |-> Get(intent_analysis.value, "complexity", "moderate"),
          expected_output_type |-> "comprehensive_analysis"]

\* intent_analysis.get(flag, True) for the three flags (planner.py:192-198)
FlagsOf(d) == [k \in IntentFlags |-> Get(d, k, TRUE)]

\* planner.py:57-83; _determine_next_agents is called outside the helpers'
\* try blocks (line 75), so its AttributeError on a value that is no dict
\* reaches the except clause of process_query, which re-raises
PlannerProcessQuery(reply, plan_raises) ==
  LET intent_analysis == AnalyzeQueryIntent(reply)
      workflow_plan == CreateWorkflowPlan(intent_analysis, plan_raises)
  IN IF intent_analysis.type # "dict"
       THEN [raised |-> TRUE]
       ELSE [raised |-> FALSE,
             result |-> [intent_analysis |-> intent_analysis.value,
                         workflow_plan |-> workflow_plan,
                         next_agents |-> DetermineNextAgents(FlagsOf(intent_analysis.value))]]

\* one call of the planner with the two replies of the language model
PlannerCall ==
  \E reply \in IntentReplies, plan_raises \in BOOLEAN :
    /\ call' = [fn |-> "planner_process_query", reply |-> reply, plan_raises |-> plan_raises,
                outcome |-> PlannerProcessQuery(reply, plan_raises)]
    /\ UNCHANGED <<wired, started, handles, agent_obj, agent_status, init_pc, req, done,
                   ncalls, s3_objects, vector_docs, hash_order, documents, ranked, patterns>>

\* an initialized planner with its language-model client
InitPlanner ==
  /\ InitCommon
  /\ hash_order = RefOrder
  /\ wired = FALSE
  /\ started = TRUE
  /\ weaviate_client = "None"
  /\ friendli_client = "connected"
  /\ gemini_client = "None"
  /\ aws_tools = "None"
  /\ agent_orchestrator = "None"
  /\ agent_obj = [a \in AgentNames |-> a = "PlannerAgent"]
  /\ agent_status = Constructed
  /\ init_pc = 0

SpecPlanner == InitPlanner /\ [][PlannerCall]_vars

\* =================================================================== claims

\* the events of a run of process_query in which every agent returns
FullLog ==
  Flatten([i \in 1..Len(AgentOrder) |-> << <<"call", AgentOrder[i]>>, <<"ret", AgentOrder[i]>> >>])

IsRun(rq) == rq.h \in {"process_query", "/agents/run"}

\* step k is awaited: the k-1 steps before it were called and returned, in order
AwaitingStep(lg, k) == lg = SubSeq(FullLog, 1, 2 * k - 1)

\* the run ended in step k: with the exception of agent k, or before agent k
\* was called (its attribute is None)
FailedAtStep(lg, k) ==
  \/ lg = SubSeq(FullLog, 1, 2 * k - 1) \o << <<"raise", AgentOrder[k]>> >>
  \/ lg = SubSeq(FullLog, 1, 2 * k - 2)

\* C1: process_query runs Planner, Retriever, Analyzer, Reporter in this
\* order, each step starting only after the previous one returned; a
\* successful run invokes each agent exactly once; nothing is invoked after
\* a failing step, no step is retried; the planner's next_agents list has no
\* influence on this
C1_FixedSequence ==
  /\ \A r \in Reqs :
       IsRun(req[r]) /\ req[r].pc # "idle" =>
         \E k \in 1..Len(AgentOrder) :
           req[r].pc = AwaitPc(AgentOrder[k]) /\ AwaitingStep(req[r].log, k)
  /\ IsRun(done) /\ done.outcome \in {"returned", "raised"} =>
       /\ (done.outcome = "returned" \/ done.status = 200) <=> done.log = FullLog
       /\ done.log # FullLog => \E k \in 1..Len(AgentOrder) : FailedAtStep(done.log, k)

C1_Witness ==
  /\ done.h = "process_query" /\ done.outcome = "returned"
  /\ done.plan = <<"ReporterAgent">>
  /\ done.log = FullLog

\* C2 as claimed: what a status request reports does not depend on the
\* requests handled before it or next to it
StartupStatus == IF \A a \in AgentNames : agent_obj[a] THEN Initialized ELSE Constructed

C3_RejectionStatus ==
  done.outcome = "response" /\ done.raised # 0 => done.status = done.raised

\* C4: a failure of an external call during a request is replaced by a
\* default value (and the request succeeds) or the client gets a 500; no
\* other status leaves a handler because of it
C4_ExternalFailure ==
  done.outcome = "response" /\ done.extfail =>
    \/ done.status = 500
    \/ done.status = 200 /\ done.absorbed

C4_Witness ==
  /\ done.h = "/health" /\ done.outcome = "response"
  /\ done.extfail /\ done.absorbed /\ done.status = 200

UploadOrder == <<"extract_text", "store_s3", "extract_entities", "store_document">>

\* C5: /upload runs text extraction, object-store write, entity extraction,
\* vector-store write in this order; a failure of the first, second or
\* fourth ends the request with 500 and no later step; a failure of entity
\* extraction is absorbed and the upload goes on; objects written to the
\* object store stay there (the count never decreases, and the two objects of
\* an upload that got past the object store are present when it fails later)
C5_UploadSequence ==
  /\ [](/\ \A r \in Reqs : req[r].h = "/upload" =>
              \E k \in 1..Len(UploadOrder) : req[r].log = SubSeq(UploadOrder, 1, k)
        /\ done.h = "/upload" =>
             /\ \E k \in 0..Len(UploadOrder) : done.log = SubSeq(UploadOrder, 1, k)
             /\ done.status = 200 => done.log = UploadOrder
             /\ done.status = 500 /\ done.log # <<>> =>
                  done.log[Len(done.log)] # "extract_entities"
             /\ done.absorbed => Len(done.log) = Len(UploadOrder)
             /\ Len(done.log) >= 3 => s3_objects >= 2)
  /\ [][s3_objects' >= s3_objects]_vars

C5_Witness ==
  /\ done.h = "/upload" /\ done.status = 500 /\ done.absorbed
  /\ done.log = UploadOrder /\ s3_objects = 2 /\ vector_docs = 0

\* the score of the claim, times 100000
ClaimScore(d) ==
  (IF "certainty" \in DOMAIN d THEN d.certainty ELSE 0) * 7000
    + (IF "content" \in DOMAIN d
         THEN (IF d.content >= 10000 THEN 10000 ELSE d.content) ELSE 0) * 3

PositionIn(docs, d) == CHOOSE i \in 1..Len(docs) : docs[i] = d

\* C6: _rank_documents returns a permutation of its input in non-increasing
\* order of 0.7 * certainty + 0.3 * min(len(content) / 10000, 1), a missing
\* certainty counting as 0; documents of equal score keep their input order
C6_RankedByScore ==
  LET in == ranked.of
      out == ranked.result
  IN /\ Len(out) = Len(in)
     /\ Range(out) = Range(in)
     /\ \A i, j \in 1..Len(out) :
          i < j =>
            /\ ClaimScore(out[i]) >= ClaimScore(out[j])
            /\ ClaimScore(out[i]) = ClaimScore(out[j]) =>
                 PositionIn(in, out[i]) < PositionIn(in, out[j])

C6_Witness ==
  /\ Len(ranked.result) = 3
  /\ ranked.result # ranked.of
  /\ ClaimScore(ranked.result[1]) = ClaimScore(ranked.result[2])
  /\ "certainty" \notin DOMAIN ranked.result[3]

RECURSIVE SumOver(_, _)
SumOver(f, S) ==
  IF S = {} THEN 0 ELSE LET x == CHOOSE y \in S : TRUE IN f[x] + SumOver(f, S \ {x})

Occurrences(docs, e) ==
  LET all == Flatten([i \in 1..Len(docs) |-> Get(docs[i], "entities", <<>>)])
  IN Cardinality({i \in 1..Len(all) : all[i] = e})

DistinctEntities(docs) == UNION {Range(Get(docs[i], "entities", <<>>)) : i \in 1..Len(docs)}

\* C7: document_type_distribution counts the documents of each type
\* ("unknown" for a document without one), so its values sum to the number of
\* documents; total_patterns_identified is the number of distinct entities;
\* entity_patterns holds min(10, total) (entity, count) pairs, each with the
\* entity's number of occurrences, in non-increasing order of count
C7_FrequencyCount ==
  LET docs == patterns.of
      p == patterns.result
      dist == p.document_type_distribution
      ep == p.entity_patterns
  IN /\ \A t \in DOMAIN dist :
          dist[t] = Cardinality({i \in 1..Len(docs) :
                       (IF "document_type" \in DOMAIN docs[i]
                          THEN docs[i].document_type ELSE "unknown") = t})
     /\ \A i \in 1..Len(docs) :
          (IF "document_type" \in DOMAIN docs[i] THEN docs[i].document_type ELSE "unknown")
             \in DOMAIN dist
     /\ SumOver(dist, DOMAIN dist) = Len(docs)
     /\ p.total_patterns_identified = Cardinality(DistinctEntities(docs))
     /\ Len(ep) = (IF p.total_patterns_identified < 10 THEN p.total_patterns_identified ELSE 10)
     /\ \A i \in 1..Len(ep) : ep[i][2] = Occurrences(docs, ep[i][1]) /\ ep[i][2] > 0
     /\ \A i, j \in 1..Len(ep) : i < j => ep[i][2] >= ep[j][2] /\ ep[i][1] # ep[j][1]

C7_Witness ==
  /\ Len(patterns.of) = 3
  /\ patterns.result.total_patterns_identified = 12
  /\ Len(patterns.result.entity_patterns) = 10
  /\ "unknown" \in DOMAIN patterns.result.document_type_distribution

\* the sample graph under the reference iteration order
SampleRef == GenerateSampleGraph(RefOrder)

\* C8: with the client handle None, with a document query that raises and
\* with a query that returns no documents, get_knowledge_graph returns the
\* static sample graph: always the same set of nodes and the same edges
C8_SampleGraph ==
  done.h = "/graph" /\ done.graph.case \in {"mock", "raises", "no_documents"} =>
    /\ Range(done.graph.data.nodes) = Range(SampleRef.nodes)
    /\ Len(done.graph.data.nodes) = Len(SampleRef.nodes)
    /\ done.graph.data.edges = SampleRef.edges

C8_Witness ==
  /\ done.h = "/graph" /\ done.graph.case = "no_documents"
  /\ hash_order # RefOrder
  /\ done.graph.data.nodes # SampleRef.nodes

\* C9: the body of GET /graph has the documented keys; graph.nodes has one
\* entry per node and graph.links one entry per edge of the underlying
\* graph, in the same order, with the same source and target; node_count and
\* edge_count are the lengths of the two lists; a node's size is 15 for a
\* department, 12 for an entity and 10 otherwise
C9_GraphBody ==
  done.h = "/graph" /\ done.status = 200 =>
    LET b == done.body
        g == done.graph.data
    IN /\ DOMAIN b = {"message", "graph", "node_count", "edge_count"}
       /\ DOMAIN b.graph = {"nodes", "links"}
       /\ Len(b.graph.nodes) = Len(g.nodes)
       /\ Len(b.graph.links) = Len(g.edges)
       /\ b.node_count = Len(b.graph.nodes)
       /\ b.edge_count = Len(b.graph.links)
       /\ \A i \in 1..Len(g.nodes) :
            /\ b.graph.nodes[i].id = g.nodes[i].id
            /\ b.graph.nodes[i].size =
                 (CASE b.graph.nodes[i].type = "department" -> 15
                    [] b.graph.nodes[i].type = "entity" -> 12
                    [] OTHER -> 10)
       /\ \A i \in 1..Len(g.edges) :
            /\ b.graph.links[i].source = g.edges[i].source
            /\ b.graph.links[i].target = g.edges[i].target

C9_Witness ==
  /\ done.h = "/graph" /\ done.status = 200 /\ done.graph.case = "documents"
  /\ \E i \in 1..Len(done.body.graph.nodes) : done.body.graph.nodes[i].size = 15
  /\ \E i \in 1..Len(done.body.graph.nodes) : done.body.graph.nodes[i].size = 12
  /\ \E i \in 1..Len(done.body.graph.nodes) : done.body.graph.nodes[i].size = 10
  /\ done.body.edge_count > 0

\* C10: after reset_agents returns every agent is "ready"
C10_AllReady ==
  done.h = "reset_agents" => \A a \in AgentNames : done.snap[a] = "ready"

\* C11: find_relevant_nodes returns at most `limit` relevant nodes, whatever
\* ids the model's reply lists
C11_AtMostLimit ==
  call.fn = "find_relevant_nodes" /\ ~call.raised =>
    Len(call.result.relevant_nodes) <= call.limit

IsLambdaCall == call.fn \in {"ask_lambda", "run_agents_lambda"}

\* the query an event carries, as the claim describes it: the one of the
\* JSON text named 'body' when the event has a 'body', the event's own otherwise
ClaimedQueryTexts(q) == {"{\"query\": \"" \o q \o "\"}"}

EventHasQuery(event, q) ==
  IF "body" \in DOMAIN event
    THEN \/ event.body \in ClaimedQueryTexts(q)
         \/ q = "" /\ event.body = "{}"
    ELSE \/ "query" \in DOMAIN event /\ event.query = q
         \/ q = "" /\ "query" \notin DOMAIN event

\* C12: both Lambda handlers answer 400 with error 'Query is required', and
\* do not run the simulation, when the query is missing or empty; for a
\* non-empty query they answer 200 with a JSON body carrying message, query
\* and the response (ask) or the result (run agents); a body that is not
\* valid JSON answers 500; the query is the one of the decoded 'body' when
\* the event has a 'body' and the event's own otherwise
C12_LambdaStatus ==
  IsLambdaCall =>
    LET event == call.event
        res == call.result
        payload == res.body.json
    IN /\ EventHasQuery(event, "") =>
            /\ res.statusCode = 400
            /\ payload = [error |-> "Query is required"]
            /\ ~res.simulated
       /\ \A q \in LambdaQueries \ {""} :
            EventHasQuery(event, q) =>
              /\ res.statusCode = 200
              /\ res.simulated
              /\ {"message", "query"} \subseteq DOMAIN payload
              /\ payload.query = q
              /\ IF call.fn = "ask_lambda"
                   THEN "response" \in DOMAIN payload /\ payload.response.about = q
                   ELSE "result" \in DOMAIN payload /\ payload.result.query = q
       /\ "body" \in DOMAIN event /\ event.body \in {"not json", ""} =>
            /\ res.statusCode = 500
            /\ DOMAIN payload = {"error"}
            /\ ~res.simulated

C12_Witness ==
  /\ call.fn = "run_agents_lambda"
  /\ call.event = [body |-> "{\"query\": \"policy\"}", query |-> ""]
  /\ call.result.statusCode = 200
  /\ ncalls = 2

\* C13: when process_query raises, the agent whose step failed and every
\* agent after it are 'failed' afterwards and the agents whose steps finished
\* are 'completed', whatever the statuses were when the call started
C13_FailureReflected ==
  done.h = "process_query" /\ done.outcome = "raised" =>
    \A k \in 1..Len(AgentOrder) :
      FailedAtStep(done.log, k) =>
        \A i \in 1..Len(AgentOrder) :
          done.snap[AgentOrder[i]] = IF i < k THEN "completed" ELSE "failed"

\* C14: the result of every process_query that returns lists all four agents
\* as 'completed', in agreement with its workflow_status 'completed' and its
\* agents_completed = total_agents = 4, under every interleaving of
\* process_query, reset_agents and get_status calls on one orchestrator
C14_SelfConsistent ==
  done.h = "process_query" /\ done.outcome = "returned" =>
    LET result == WorkflowResult(done.snap)
    IN /\ result.workflow_status = "completed"
       /\ \A a \in AgentNames : result.agent_status[a] = "completed"
       /\ Cardinality({a \in AgentNames : result.agent_status[a] = "completed"})
            = result.workflow_metadata.agents_completed
       /\ result.workflow_metadata.agents_completed = result.workflow_metadata.total_agents

\* C15: in the backend as lifespan wires it the orchestrator never becomes
\* ready: after any sequence of requests every agent status is still
\* 'not_initialized', GET /agents/status reports orchestrator_status
\* 'initializing' with ready_agents 0, and every POST /agents/run with a
\* non-empty query ends with a 500 response
C15_NeverReady ==
  wired =>
    /\ \A a \in AgentNames : agent_status[a] = "not_initialized"
    /\ \A r \in Reqs : req[r].h # "/agents/run"
    /\ done.h = "/agents/status" =>
         /\ done.status = 200
         /\ StatusReport(done.snap).orchestrator_status = "initializing"
         /\ StatusReport(done.snap).ready_agents = 0
         /\ \A a \in AgentNames : StatusReport(done.snap).agents[a] = "not_initialized"
    /\ done.h = "/agents/run" /\ done.query # "" => done.status = 500

C15_Witness ==
  /\ wired /\ started
  /\ done.h = "/agents/run" /\ done.query = "q" /\ done.status = 500
  /\ ncalls = 2

\* the three factors of the claim, read where the retriever and the analyzer
\* put them
ClaimedFactors ==
  (IF call.retrieval_results.documents_returned > 0 THEN 1 ELSE 0)
    + (IF call.analysis_results.analysis_results.analysis_text # "" THEN 1 ELSE 0)
    + (IF call.analysis_results.entity_analysis.total_entities > 0 THEN 1 ELSE 0)

\* C16: the report's executive_summary.confidence_level is 'high' when
\* retrieval returned a document, the analysis text is non-empty and entity
\* extraction found an entity, 'medium' when exactly two of the three hold,
\* 'low' otherwise
C16_ConfidenceLevel ==
  call.fn = "generate_report" =>
    call.result.structured_report.executive_summary.confidence_level =
      (CASE ClaimedFactors = 3 -> "high"
         [] ClaimedFactors = 2 -> "medium"
         [] OTHER -> "low")

\* C17: PlannerAgent.process_query never fails because of the language
\* model: for a reply that is a JSON document, a reply that is no JSON, and a
\* failing model call it returns a result with intent_analysis, workflow_plan
\* and next_agents
C17_PlannerNeverFails ==
  call.fn = "planner_process_query" =>
    /\ ~call.outcome.raised
    /\ {"intent_analysis", "workflow_plan", "next_agents"} \subseteq DOMAIN call.outcome.result

====
